---- MODULE Spec2Model ----
(***************************************************************************)
(* Model of gallery-frontend/app/main.py: the TTL cache in front of the    *)
(* backend (_get), the handlers that use it (gallery_show, media_proxy,    *)
(* health_check, clear_cache) and the listing query (gallery_index).       *)
(*                                                                         *)
(* Strings whose characters matter (ids, media paths, medium, year, q) are *)
(* sequences of one-character strings; JSON values are tagged records.     *)
(* The clock (datetime.now()) is an integer number of seconds, assumed not *)
(* to run backwards.                                                       *)
(***************************************************************************)
EXTENDS Integers, Sequences, FiniteSets, TLC

VARIABLES
    cache,        \* _cache: dict path -> payload
    cache_time,   \* _cache_time: dict path -> datetime of the store
    now,          \* the wall clock read by datetime.now()
    API_KEY,      \* os.getenv("API_KEY", "")
    CACHE_TTL,    \* int(os.getenv("CACHE_TTL", "300"))
    last,         \* the last handled request and its response
    req,          \* the listing request being served (SpecQuery, SpecIndex)
    thr           \* the request threads' positions and locals (SpecConc)

vars == <<cache, cache_time, now, API_KEY, CACHE_TTL, last, req, thr>>

\* ------------------------------------------------------------------ bounds
MaxTime == 2
MaxTTL == 2
MaxColl == 3
MaxIndexColl == 2
MaxPage == 3
MaxFetches == 3

\* ----------------------------------------------------------- program constants
MaxIdLen == 50
DefaultPerPage == 24
MaxPerPage == 100

\* ------------------------------------------------------------------ strings
Max(a, b) == IF a >= b THEN a ELSE b
Min(a, b) == IF a <= b THEN a ELSE b

Rep(c, n) == [i \in 1..n |-> c]

\* str.lower() on the alphabet of the model
LowerChar(c) ==
    CASE c = "O" -> "o"
      [] c = "I" -> "i"
      [] c = "N" -> "n"
      [] OTHER -> c

Lower(s) == [i \in 1..Len(s) |-> LowerChar(s[i])]

IsSpace(c) == c = " "

RECURSIVE LStrip(_)
LStrip(s) == IF s # <<>> /\ IsSpace(Head(s)) THEN LStrip(Tail(s)) ELSE s

RECURSIVE RStrip(_)
RStrip(s) ==
    IF s # <<>> /\ IsSpace(s[Len(s)]) THEN RStrip(SubSeq(s, 1, Len(s) - 1)) ELSE s

\* str.strip()
Strip(s) == RStrip(LStrip(s))

\* needle in haystack (substring)
Contains(h, n) ==
    \E i \in 1..(Len(h) - Len(n) + 1) : SubSeq(h, i, i + Len(n) - 1) = n

StartsWith(s, p) == Len(s) >= Len(p) /\ SubSeq(s, 1, Len(p)) = p

\* ------------------------------------------------------------ cache-fetch
EmptyMap == [p \in {} |-> TRUE]

Put(m, k, v) == [p \in (DOMAIN m) \cup {k} |-> IF p = k THEN v ELSE m[p]]

CollectionPath == <<"/api/artworks">>
DetailPath(artwork_id) == <<"/api/artworks/", artwork_id>>

\* what a handler hands back: a value, or a raised exception
Return(v) == [exc |-> "none", status_code |-> 200, detail |-> v]
Raise(code, detail) == [exc |-> "HTTPException", status_code |-> code, detail |-> detail]
Uncaught(e) == [exc |-> e, status_code |-> 500, detail |-> <<e>>]

TransportDetail(e) == <<"Backend service unavailable: ", e>>

\* the outcomes of requests.get(...) followed by r.ok / r.json()
TransportErrors == {"timeout"}
\* r.status_code and r.text of the non-success responses; r.text is whatever the
\* backend sends, the text of this program's own 503 included
ErrorResponses ==
    {[code |-> 404, text |-> <<"body">>],
     [code |-> 500, text |-> <<"body">>],
     [code |-> 503, text |-> <<"body">>],
     [code |-> 503, text |-> TransportDetail("timeout")]}

OkOut(d) == [kind |-> "ok", data |-> d]
FailOuts ==
    {[kind |-> "status", code |-> r.code, text |-> r.text] : r \in ErrorResponses}
    \cup [kind : {"transport"}, err : TransportErrors]
    \cup [kind : {"badjson"}, as : {"RequestException", "ValueError"}]

\* (mutant of Fresh: the age test lets an entry of age exactly TTL through)
FreshOffByOne(c, ct, t, ttl, path) ==
    /\ path \in DOMAIN c
    /\ path \in DOMAIN ct
    /\ (t - ct[path]) <= ttl

\* the cached-value test of _get: last = _cache_time.get(path);
\* path in _cache and last and (now - last) < timedelta(seconds=CACHE_TTL)
Fresh(c, ct, t, ttl, path) ==
    /\ path \in DOMAIN c
    /\ path \in DOMAIN ct
    /\ (t - ct[path]) < ttl

\* (mutant of GetFailure: every upstream failure is reported as a 503)
GetFailureAll503(out) ==
    CASE out.kind = "status" -> Raise(503, out.text)
      [] out.kind = "transport" -> Raise(503, TransportDetail(out.err))
      [] out.kind = "badjson" ->
            IF out.as = "RequestException"
            THEN Raise(503, TransportDetail("json"))
            ELSE Uncaught("ValueError")

\* what _get raises for an upstream outcome that is not a parsed success.
\* A 2xx body that is no JSON raises requests' JSONDecodeError, which is a
\* RequestException in current requests and a plain ValueError in old ones.
GetFailure(out) ==
    CASE out.kind = "status" -> Raise(out.code, out.text)
      [] out.kind = "transport" -> Raise(503, TransportDetail(out.err))
      [] out.kind = "badjson" ->
            IF out.as = "RequestException"
            THEN Raise(503, TransportDetail("json"))
            ELSE Uncaught("ValueError")

\* _get(path) run against cache c, timestamps ct at clock t; the upstream
\* request, when one is issued, ends as out, and a success is stored with the
\* clock read d seconds after the freshness test.
Get(c, ct, t, ttl, path, out, d) ==
    IF Fresh(c, ct, t, ttl, path)
    THEN [res |-> Return(c[path]), c |-> c, ct |-> ct, t |-> t, up |-> <<>>]
    ELSE IF out.kind = "ok"
         THEN [res |-> Return(out.data),
               c |-> Put(c, path, out.data),
               ct |-> Put(ct, path, t + d),
               t |-> t + d,
               up |-> <<out>>]
         ELSE [res |-> GetFailure(out), c |-> c, ct |-> ct, t |-> t, up |-> <<out>>]

\* ------------------------------------------------------------ the service
Payloads == {<<"p1">>, <<"p2">>}
Outcomes == {OkOut(d) : d \in Payloads} \cup FailOuts
Delays == {0, 1}

Keys == {"", "k1", "k2"}

IdLens == {0, MaxIdLen, MaxIdLen + 1}
ArtworkIds == {Rep("a", n) : n \in IdLens}

\* the media paths requested: m, m/m, m.m, ./m, .m, the empty path, and
\* .., ../m, m/.., m/../m, m..m, /, /m, //m
MediaPaths ==
    {<<"m">>, <<"m", "/", "m">>, <<"m", ".", "m">>, <<".", "/", "m">>, <<".", "m">>, <<>>,
     <<".", ".">>, <<".", ".", "/", "m">>, <<"m", "/", ".", ".">>,
     <<"m", "/", ".", ".", "/", "m">>, <<"m", ".", ".", "m">>,
     <<"/">>, <<"/", "m">>, <<"/", "/", "m">>}

\* the requested paths with a ".." in them or a leading "/"
RejectedPaths ==
    {<<".", ".">>, <<".", ".", "/", "m">>, <<"m", "/", ".", ".">>,
     <<"m", "/", ".", ".", "/", "m">>, <<"m", ".", ".", "m">>,
     <<"/">>, <<"/", "m">>, <<"/", "/", "m">>}

NoReq == [op |-> "none"]
NoThreads == <<>>

Response(op, arg, res, up, hit) ==
    [op |-> op, arg |-> arg, res |-> res, up |-> up, hit |-> hit]

\* a caller (stats, gallery_index, ...) invoking _get(path)
Fetch(path, out, d) ==
    LET g == Get(cache, cache_time, now, CACHE_TTL, path, out, d) IN
    /\ g.t <= MaxTime
    /\ cache' = g.c
    /\ cache_time' = g.ct
    /\ now' = g.t
    /\ last' = Response("get", path, g.res, g.up, Fresh(cache, cache_time, now, CACHE_TTL, path))
    /\ UNCHANGED <<API_KEY, CACHE_TTL, req, thr>>

InvalidId(artwork_id) == artwork_id = <<>> \/ Len(artwork_id) > MaxIdLen

NotFoundPage == Return(<<"404.html">>)

\* gallery_show's except clause: a 404 HTTPException becomes the friendly page
ShowResult(res) ==
    IF res.exc = "HTTPException" /\ res.status_code = 404
    THEN [NotFoundPage EXCEPT !.status_code = 404]
    ELSE res

gallery_show(artwork_id, out, d) ==
    IF InvalidId(artwork_id)
    THEN /\ last' = Response("show", artwork_id, Raise(400, <<"Invalid artwork ID">>), <<>>, FALSE)
         /\ UNCHANGED <<cache, cache_time, now, API_KEY, CACHE_TTL, req, thr>>
    ELSE LET path == DetailPath(artwork_id)
             g == Get(cache, cache_time, now, CACHE_TTL, path, out, d) IN
         /\ g.t <= MaxTime
         /\ cache' = g.c
         /\ cache_time' = g.ct
         /\ now' = g.t
         /\ last' = Response("show", artwork_id, ShowResult(g.res), g.up,
                             Fresh(cache, cache_time, now, CACHE_TTL, path))
         /\ UNCHANGED <<API_KEY, CACHE_TTL, req, thr>>

\* (mutant of InvalidMediaPath: ".." is looked for at the start only)
InvalidMediaPathPrefixOnly(full_path) ==
    StartsWith(full_path, <<".", ".">>) \/ StartsWith(full_path, <<"/">>)

InvalidMediaPath(full_path) ==
    Contains(full_path, <<".", ".">>) \/ StartsWith(full_path, <<"/">>)

MediaResult(out) ==
    CASE out.kind = "ok" -> Return(<<"stream">>)
      [] out.kind = "status" -> Raise(out.code, <<"Media not found">>)
      [] out.kind = "transport" -> Raise(503, <<"Media service unavailable: ", out.err>>)

MediaOutcomes ==
    {OkOut(<<"bytes">>), [kind |-> "status", code |-> 404, text |-> <<"body">>],
     [kind |-> "transport", err |-> "timeout"]}

media_proxy(full_path, out) ==
    IF InvalidMediaPath(full_path)
    THEN /\ last' = Response("media", full_path, Raise(400, <<"Invalid media path">>), <<>>, FALSE)
         /\ UNCHANGED <<cache, cache_time, now, API_KEY, CACHE_TTL, req, thr>>
    ELSE /\ last' = Response("media", full_path, MediaResult(out), <<out>>, FALSE)
         /\ UNCHANGED <<cache, cache_time, now, API_KEY, CACHE_TTL, req, thr>>

\* health_check: _get of the collection path inside try / except Exception
HealthResult(res) ==
    IF res.exc = "none" THEN Return(<<"healthy">>) ELSE Return(<<"unhealthy">>)

health_check(out, d) ==
    LET g == Get(cache, cache_time, now, CACHE_TTL, CollectionPath, out, d) IN
    /\ g.t <= MaxTime
    /\ cache' = g.c
    /\ cache_time' = g.ct
    /\ now' = g.t
    /\ last' = Response("health", CollectionPath, HealthResult(g.res), g.up,
                        Fresh(cache, cache_time, now, CACHE_TTL, CollectionPath))
    /\ UNCHANGED <<API_KEY, CACHE_TTL, req, thr>>

\* (mutant of Forbidden: the test that a secret is configured is dropped)
ForbiddenKeyOnly(api_key, secret) == api_key # secret

Forbidden(api_key, secret) == api_key # secret \/ secret = ""

clear_cache(api_key) ==
    IF Forbidden(api_key, API_KEY)
    THEN /\ last' = Response("clear", api_key, Raise(403, <<"Forbidden">>), <<>>, FALSE)
         /\ UNCHANGED <<cache, cache_time, now, API_KEY, CACHE_TTL, req, thr>>
    ELSE /\ cache' = EmptyMap
         /\ cache_time' = EmptyMap
         /\ last' = Response("clear", api_key, Return(<<"success">>), <<>>, FALSE)
         /\ UNCHANGED <<now, API_KEY, CACHE_TTL, req, thr>>

\* a second passes
Tick ==
    /\ now < MaxTime
    /\ now' = now + 1
    /\ UNCHANGED <<cache, cache_time, API_KEY, CACHE_TTL, last, req, thr>>

ValidIds == {a \in ArtworkIds : ~InvalidId(a)}
ServicePaths == {CollectionPath} \cup {DetailPath(a) : a \in ValidIds}

Init ==
    /\ cache = EmptyMap
    /\ cache_time = EmptyMap
    /\ now = 0
    /\ API_KEY \in {"", "k1"}
    /\ CACHE_TTL \in 0..MaxTTL
    /\ last = Response("none", <<>>, Return(<<"none">>), <<>>, FALSE)
    /\ req = NoReq
    /\ thr = NoThreads

\* The upstream outcomes a handler is run against: all of them when it will
\* issue a request, one (never read) when it will not; d is read only when
\* the outcome is a success.
Calls == {c \in [out : Outcomes, d : Delays] : c.out.kind # "ok" => c.d = 0}
NoCall == [out |-> [kind |-> "transport", err |-> "timeout"], d |-> 0]
CallsFor(path) ==
    IF Fresh(cache, cache_time, now, CACHE_TTL, path) THEN {NoCall} ELSE Calls

DoFetch == \E p \in ServicePaths : \E c \in CallsFor(p) : Fetch(p, c.out, c.d)
DoShow ==
    \E a \in ArtworkIds :
        \E c \in IF Len(a) \in 1..MaxIdLen THEN CallsFor(DetailPath(a)) ELSE {NoCall} :
            gallery_show(a, c.out, c.d)
DoMedia ==
    \E f \in MediaPaths :
        \E o \in IF f \in RejectedPaths THEN {NoCall.out} ELSE MediaOutcomes :
            media_proxy(f, o)
DoHealth == \E c \in CallsFor(CollectionPath) : health_check(c.out, c.d)
DoClear == \E k \in Keys : clear_cache(k)

Next ==
    \/ DoFetch
    \/ DoShow
    \/ DoMedia
    \/ DoHealth
    \/ DoClear
    \/ Tick

Spec == Init /\ [][Next]_vars

\* ------------------------------------------------------- JSON values
Null == [t |-> "null"]
StrV(s) == [t |-> "str", v |-> s]
IntV(n) == [t |-> "int", v |-> n]

\* a.get(key) and a.get(key, default) on an artwork (a dict)
GetField(a, key, default) == IF key \in DOMAIN a THEN a[key] ELSE default

\* bool(v)
Truthy(v) ==
    CASE v.t = "null" -> FALSE
      [] v.t = "str" -> v.v # <<>>
      [] v.t = "int" -> v.v # 0

Digits == <<"0", "1", "2", "3", "4", "5", "6", "7", "8", "9">>
IsDigit(c) == \E i \in 1..10 : Digits[i] = c
DigitVal(c) == (CHOOSE i \in 1..10 : Digits[i] = c) - 1

RECURSIVE DigitsVal(_)
DigitsVal(s) ==
    IF s = <<>> THEN 0 ELSE 10 * DigitsVal(SubSeq(s, 1, Len(s) - 1)) + DigitVal(s[Len(s)])

\* int(v): [ok, v]; a string is stripped, then an optional sign and digits
ParseInt(v) ==
    CASE v.t = "int" -> [ok |-> TRUE, v |-> v.v]
      [] v.t = "null" -> [ok |-> FALSE, v |-> 0]
      [] v.t = "str" ->
            LET s == Strip(v.v)
                signed == s # <<>> /\ Head(s) \in {"-", "+"}
                digits == IF signed THEN Tail(s) ELSE s
            IN IF digits # <<>> /\ \A i \in 1..Len(digits) : IsDigit(digits[i])
               THEN [ok |-> TRUE,
                     v |-> IF signed /\ Head(s) = "-" THEN 0 - DigitsVal(digits)
                           ELSE DigitsVal(digits)]
               ELSE [ok |-> FALSE, v |-> 0]

RECURSIVE NatStr(_)
NatStr(n) == IF n < 10 THEN <<Digits[n + 1]>> ELSE NatStr(n \div 10) \o <<Digits[(n % 10) + 1]>>

\* f"{v}"
Format(v) ==
    CASE v.t = "str" -> v.v
      [] v.t = "null" -> <<"N", "o", "n", "e">>
      [] v.t = "int" -> IF v.v < 0 THEN <<"-">> \o NatStr(0 - v.v) ELSE NatStr(v.v)

\* code points of the characters of the model, for sorted()
CharCode(c) ==
    CASE c = " " -> 32
      [] c = "I" -> 73
      [] c = "N" -> 78
      [] c = "O" -> 79
      [] c = "e" -> 101
      [] c = "i" -> 105
      [] c = "n" -> 110
      [] c = "o" -> 111
      [] OTHER -> 120

RECURSIVE StrLess(_, _)
StrLess(s, u) ==
    IF u = <<>> THEN FALSE
    ELSE IF s = <<>> THEN TRUE
    ELSE IF Head(s) = Head(u) THEN StrLess(Tail(s), Tail(u))
    ELSE CharCode(Head(s)) < CharCode(Head(u))

\* sorted(S) of a set of strings
RECURSIVE Sorted(_)
Sorted(S) ==
    IF S = {} THEN <<>>
    ELSE LET least == CHOOSE x \in S : \A y \in S \ {x} : StrLess(x, y)
         IN <<least>> \o Sorted(S \ {least})

\* ------------------------------------------------------- the listing query
\* matches_query(a)
Haystack(a) ==
    Lower(Format(GetField(a, "artwork_id", StrV(<<>>))) \o <<" ">>
          \o Format(GetField(a, "title", StrV(<<>>))) \o <<" ">>
          \o Format(GetField(a, "keywords", StrV(<<>>))) \o <<" ">>
          \o Format(GetField(a, "medium", StrV(<<>>))) \o <<" ">>
          \o Format(GetField(a, "surface", StrV(<<>>))))

MatchesQuery(a, ql) == Contains(Haystack(a), ql)

\* year_gte(a)
YearGte(a, year_from) ==
    LET year == GetField(a, "year", Null) IN
    IF ~Truthy(year) THEN FALSE
    ELSE ParseInt(year).ok /\ ParseInt(year).v >= year_from

\* year_lte(a)
YearLte(a, year_to) ==
    LET year == GetField(a, "year", Null) IN
    IF ~Truthy(year) THEN FALSE
    ELSE ParseInt(year).ok /\ ParseInt(year).v <= year_to

\* a.get('medium', '') is a str (else .lower() and .strip() raise AttributeError)
MediumIsStr(a) == GetField(a, "medium", StrV(<<>>)).t = "str"

AllMediumsStr(items) == \A i \in 1..Len(items) : MediumIsStr(items[i])

\* a.get('medium', '').lower() == medium_lower
MediumMatches(a, medium_lower) == Lower(GetField(a, "medium", StrV(<<>>)).v) = medium_lower

\* the q and year filters, in the handler's order
QueryYearFiltered(items, rq) ==
    LET ql == IF Truthy(rq.q) THEN Strip(Lower(rq.q.v)) ELSE <<>>
        KeepQ(a) == MatchesQuery(a, ql)
        afterQ == IF ql # <<>> THEN SelectSeq(items, KeepQ) ELSE items
        KeepFrom(a) == YearGte(a, rq.year_from.v)
        afterFrom == IF rq.year_from.t # "null" THEN SelectSeq(afterQ, KeepFrom) ELSE afterQ
        KeepTo(a) == YearLte(a, rq.year_to.v)
    IN IF rq.year_to.t # "null" THEN SelectSeq(afterFrom, KeepTo) ELSE afterFrom

\* the medium filter; it raises when an item's medium is no str
MediumFilterRaises(items, rq) == Truthy(rq.medium) /\ ~AllMediumsStr(items)

MediumFiltered(items, rq) ==
    LET medium_lower == Strip(Lower(rq.medium.v))
        KeepM(a) == MediumMatches(a, medium_lower)
    IN IF Truthy(rq.medium) THEN SelectSeq(items, KeepM) ELSE items

\* mediums = sorted({a.get('medium','').strip() for a in all_artworks if ...})
MediumList(all_artworks) ==
    LET Medium(i) == Strip(GetField(all_artworks[i], "medium", StrV(<<>>)).v) IN
    Sorted({Medium(i) : i \in {j \in 1..Len(all_artworks) : Medium(j) # <<>>}})

NormPerPage(per_page) ==
    IF per_page < 1 \/ per_page > MaxPerPage THEN DefaultPerPage ELSE per_page

NormPage(page) == IF page < 1 THEN 1 ELSE page

\* items[start_idx:end_idx]
Slice(items, start_idx, end_idx) == SubSeq(items, start_idx + 1, Min(end_idx, Len(items)))

\* (mutant of Paginate: total_pages rounds down)
PaginateRoundDown(items, page0, per_page) ==
    LET total_items == Len(items)
        total_pages == Max(1, total_items \div per_page)
        page == Max(1, Min(page0, IF total_items > 0 THEN total_pages ELSE 1))
        start_idx == (page - 1) * per_page
        end_idx == start_idx + per_page
    IN [artworks |-> Slice(items, start_idx, end_idx),
        pagination |-> [page |-> page, per_page |-> per_page,
                        total_items |-> total_items, total_pages |-> total_pages,
                        has_prev |-> page > 1, has_next |-> page < total_pages]]

\* the pagination block, page and per_page already normalized
Paginate(items, page0, per_page) ==
    LET total_items == Len(items)
        total_pages == Max(1, (total_items + per_page - 1) \div per_page)
        page == Max(1, Min(page0, IF total_items > 0 THEN total_pages ELSE 1))
        start_idx == (page - 1) * per_page
        end_idx == start_idx + per_page
    IN [artworks |-> Slice(items, start_idx, end_idx),
        pagination |-> [page |-> page, per_page |-> per_page,
                        total_items |-> total_items, total_pages |-> total_pages,
                        has_prev |-> page > 1, has_next |-> page < total_pages]]

\* x or [] / x or ''
OrEmpty(v) == IF Truthy(v) THEN v.v ELSE <<>>

\* the template context for filtered items and the collection all_artworks
IndexContext(items, all_artworks, rq) ==
    LET pg == Paginate(items, NormPage(rq.page), NormPerPage(rq.per_page)) IN
    [artworks |-> pg.artworks,
     mediums |-> MediumList(all_artworks),
     pagination |-> pg.pagination,
     filters |-> [q |-> OrEmpty(rq.q), year_from |-> rq.year_from,
                  year_to |-> rq.year_to, medium |-> OrEmpty(rq.medium)]]

\* gallery_index run against cache c, timestamps ct at clock t: the first
\* _get, the filters, the second _get rq.gap seconds later, the medium list
\* and the pagination. An exception ends the handler where it is raised.
Index(c, ct, t, ttl, rq) ==
    LET g1 == Get(c, ct, t, ttl, CollectionPath, rq.out1, rq.d1)
        hit1 == Fresh(c, ct, t, ttl, CollectionPath)
        afterYear == QueryYearFiltered(g1.res.detail, rq)
        g2 == Get(g1.c, g1.ct, g1.t + rq.gap, ttl, CollectionPath, rq.out2, rq.d2)
        hit2 == Fresh(g1.c, g1.ct, g1.t + rq.gap, ttl, CollectionPath)
    IN IF g1.res.exc # "none"
       THEN [res |-> g1.res, c |-> g1.c, ct |-> g1.ct, t |-> g1.t, up |-> g1.up,
             hits |-> <<hit1>>]
       ELSE IF MediumFilterRaises(afterYear, rq)
       THEN [res |-> Uncaught("AttributeError"), c |-> g1.c, ct |-> g1.ct, t |-> g1.t,
             up |-> g1.up, hits |-> <<hit1>>]
       ELSE IF g2.res.exc # "none"
       THEN [res |-> g2.res, c |-> g2.c, ct |-> g2.ct, t |-> g2.t, up |-> g1.up \o g2.up,
             hits |-> <<hit1, hit2>>]
       ELSE IF ~AllMediumsStr(g2.res.detail)
       THEN [res |-> Uncaught("AttributeError"), c |-> g2.c, ct |-> g2.ct, t |-> g2.t,
             up |-> g1.up \o g2.up, hits |-> <<hit1, hit2>>]
       ELSE [res |-> Return(IndexContext(MediumFiltered(afterYear, rq), g2.res.detail, rq)),
             c |-> g2.c, ct |-> g2.ct, t |-> g2.t, up |-> g1.up \o g2.up,
             hits |-> <<hit1, hit2>>]

\* the handler serving the pending listing request
gallery_index ==
    /\ req.op = "index"
    /\ LET r == Index(cache, cache_time, now, CACHE_TTL, req) IN
       /\ cache' = r.c
       /\ cache_time' = r.ct
       /\ now' = r.t
       /\ last' = Response("index", req, r.res, r.up, r.hits)
    /\ req' = NoReq
    /\ UNCHANGED <<API_KEY, CACHE_TTL, thr>>

\* ------------------------------------------- the listing query's inputs
\* artworks as the backend sends them: a year that is a numeric string, the
\* number 0, a non-numeric string or absent; a medium in two spellings of one
\* value, another value or absent
Pool ==
    {[artwork_id |-> StrV(<<"a">>), year |-> StrV(<<"0">>), medium |-> StrV(<<"O">>)],
     [artwork_id |-> StrV(<<"b">>), year |-> IntV(0), medium |-> StrV(<<" ", "o">>)],
     [artwork_id |-> StrV(<<"c">>), year |-> StrV(<<"x">>), medium |-> StrV(<<"i">>)],
     [artwork_id |-> StrV(<<"d">>)]}

\* and one whose medium is JSON null
NullMedium == [artwork_id |-> StrV(<<"e">>), year |-> IntV(1), medium |-> Null]

RECURSIVE SeqsUpTo(_, _)
SeqsUpTo(S, n) ==
    IF n = 0 THEN {<<>>}
    ELSE LET shorter == SeqsUpTo(S, n - 1)
         IN shorter \cup {Append(s, x) : s \in {u \in shorter : Len(u) = n - 1}, x \in S}

Collections == SeqsUpTo(Pool, MaxColl)

Qs == {Null, StrV(<<"O">>)}
YearFroms == {Null, IntV(0)}
YearTos == {Null, IntV(0)}
MediumFilters == {Null, StrV(<<"O">>), StrV(<<"o", " ">>)}
Pages == 0..MaxPage
PerPages == {0, 1, 2, MaxPerPage, MaxPerPage + 1}

\* the filters of a listing request: none, one alone, or all four together
Filters ==
    {f \in [q : Qs, year_from : YearFroms, year_to : YearTos, medium : MediumFilters] :
        LET given == {g \in DOMAIN f : f[g] # Null} IN Cardinality(given) \in {0, 1, 4}}

\* listing requests served while the backend's collection stays as it is
QueryRequests ==
    {[op |-> "index", q |-> f.q, year_from |-> f.year_from, year_to |-> f.year_to,
      medium |-> f.medium, page |-> g.page, per_page |-> g.per_page,
      out1 |-> OkOut(g.coll), d1 |-> 0, gap |-> 0, out2 |-> OkOut(g.coll), d2 |-> 0] :
        f \in Filters, g \in [page : Pages, per_page : PerPages, coll : Collections]}

InitQuery ==
    /\ cache = EmptyMap
    /\ cache_time = EmptyMap
    /\ now = 0
    /\ API_KEY = ""
    /\ CACHE_TTL = MaxTTL
    /\ last = Response("none", <<>>, Return(<<"none">>), <<>>, FALSE)
    /\ req \in QueryRequests
    /\ thr = NoThreads

NextQuery == gallery_index

SpecQuery == InitQuery /\ [][NextQuery]_vars

\* listing requests during which the backend may answer the two _get calls
\* differently, the second one rq.gap seconds after the first
IndexOutcomes ==
    {OkOut(c) : c \in SeqsUpTo(Pool \cup {NullMedium}, MaxIndexColl)} \cup {[kind |-> "transport", err |-> "timeout"]}

IndexRequests ==
    {[op |-> "index", q |-> f.q, year_from |-> f.year_from, year_to |-> Null,
      medium |-> f.medium, page |-> 1, per_page |-> DefaultPerPage,
      out1 |-> f.out1, d1 |-> 0, gap |-> f.gap, out2 |-> f.out2, d2 |-> 0] :
        f \in [q : Qs, year_from : {Null, IntV(0)}, medium : {Null, StrV(<<"O">>)},
               out1 : IndexOutcomes, out2 : IndexOutcomes, gap : Delays]}

InitIndex ==
    /\ cache = EmptyMap
    /\ cache_time = EmptyMap
    /\ now = 0
    /\ API_KEY = ""
    /\ CACHE_TTL \in 0..MaxTTL
    /\ last = Response("none", <<>>, Return(<<"none">>), <<>>, FALSE)
    /\ req \in IndexRequests
    /\ thr = NoThreads

NextIndex == gallery_index

SpecIndex == InitIndex /\ [][NextIndex]_vars

\* ------------------------------------------------- concurrent requests
\* The handlers are plain def functions, which the framework runs on a thread
\* pool: two _get calls of the collection path and a clear_cache run
\* interleaved, one statement of main.py at a time. cache and cache_time are
\* shared and unlocked. last holds, for the claim, which fetch wrote the
\* current payload (pby) and timestamp (tby) and the writers behind the most
\* recent answer from the cache (served).
Threads == {1, 2}

IdleThread == [pc |-> "idle", fid |-> 0, lastv |-> <<>>, lastby |-> 0, data |-> <<>>]

InitConc ==
    /\ cache = EmptyMap
    /\ cache_time = EmptyMap
    /\ now = 0
    /\ API_KEY = "k1"
    /\ CACHE_TTL \in 1..MaxTTL
    /\ last = [op |-> "conc", pby |-> 0, tby |-> 0, served |-> <<>>]
    /\ req = NoReq
    /\ thr = [fetch |-> [i \in Threads |-> IdleThread], clear |-> "idle", nfetch |-> 0]

SetThread(i, t) == [thr EXCEPT !.fetch[i] = t]

\* a request arrives and its handler calls _get(CollectionPath)
Start(i) ==
    /\ thr.fetch[i].pc = "idle"
    /\ thr.nfetch < MaxFetches
    /\ thr' = [thr EXCEPT !.fetch[i] = [IdleThread EXCEPT !.pc = "l37", !.fid = thr.nfetch + 1],
                          !.nfetch = thr.nfetch + 1]
    /\ UNCHANGED <<cache, cache_time, now, API_KEY, CACHE_TTL, last, req>>

\* line 37: last = _cache_time.get(path)
ReadTime(i) ==
    /\ thr.fetch[i].pc = "l37"
    /\ thr' = SetThread(i, [thr.fetch[i] EXCEPT
                !.pc = "l38",
                !.lastv = IF CollectionPath \in DOMAIN cache_time
                          THEN <<cache_time[CollectionPath]>> ELSE <<>>,
                !.lastby = last.tby])
    /\ UNCHANGED <<cache, cache_time, now, API_KEY, CACHE_TTL, last, req>>

\* line 38: the freshness test, on the timestamp read at line 37
Check(i) ==
    /\ thr.fetch[i].pc = "l38"
    /\ LET seen == IF thr.fetch[i].lastv = <<>> THEN EmptyMap
                    ELSE Put(EmptyMap, CollectionPath, thr.fetch[i].lastv[1])
       IN thr' = SetThread(i, [thr.fetch[i] EXCEPT
                    !.pc = IF Fresh(cache, seen, now, CACHE_TTL, CollectionPath)
                           THEN "l39" ELSE "l43"])
    /\ UNCHANGED <<cache, cache_time, now, API_KEY, CACHE_TTL, last, req>>

\* line 39: return _cache[path] (KeyError when the entry was cleared meanwhile)
ReturnCached(i) ==
    /\ thr.fetch[i].pc = "l39"
    /\ thr' = SetThread(i, IdleThread)
    /\ last' = IF CollectionPath \in DOMAIN cache
               THEN [last EXCEPT !.served = <<[payload |-> cache[CollectionPath],
                                               pby |-> last.pby,
                                               tby |-> thr.fetch[i].lastby]>>]
               ELSE [last EXCEPT !.served = <<>>]
    /\ UNCHANGED <<cache, cache_time, now, API_KEY, CACHE_TTL, req>>

\* lines 43-47: the upstream request and r.json(); a failure raises
Request(i, ok) ==
    /\ thr.fetch[i].pc = "l43"
    /\ thr' = SetThread(i, IF ok
                            THEN [thr.fetch[i] EXCEPT !.pc = "l48",
                                                      !.data = <<"response", thr.fetch[i].fid>>]
                            ELSE IdleThread)
    /\ UNCHANGED <<cache, cache_time, now, API_KEY, CACHE_TTL, last, req>>

\* line 48: _cache[path] = data
StorePayload(i) ==
    /\ thr.fetch[i].pc = "l48"
    /\ cache' = Put(cache, CollectionPath, thr.fetch[i].data)
    /\ last' = [last EXCEPT !.pby = thr.fetch[i].fid]
    /\ thr' = SetThread(i, [thr.fetch[i] EXCEPT !.pc = "l49"])
    /\ UNCHANGED <<cache_time, now, API_KEY, CACHE_TTL, req>>

\* line 49: _cache_time[path] = datetime.now(), then return data
StoreTime(i) ==
    /\ thr.fetch[i].pc = "l49"
    /\ cache_time' = Put(cache_time, CollectionPath, now)
    /\ last' = [last EXCEPT !.tby = thr.fetch[i].fid]
    /\ thr' = SetThread(i, IdleThread)
    /\ UNCHANGED <<cache, now, API_KEY, CACHE_TTL, req>>

\* clear_cache with the configured key, lines 285-288: _cache.clear()
ClearPayloads ==
    /\ thr.clear = "idle"
    /\ ~Forbidden("k1", API_KEY)
    /\ cache # EmptyMap \/ cache_time # EmptyMap
    /\ cache' = EmptyMap
    /\ last' = [last EXCEPT !.pby = 0]
    /\ thr' = [thr EXCEPT !.clear = "l289"]
    /\ UNCHANGED <<cache_time, now, API_KEY, CACHE_TTL, req>>

\* line 289: _cache_time.clear()
ClearTimes ==
    /\ thr.clear = "l289"
    /\ cache_time' = EmptyMap
    /\ last' = [last EXCEPT !.tby = 0]
    /\ thr' = [thr EXCEPT !.clear = "idle"]
    /\ UNCHANGED <<cache, now, API_KEY, CACHE_TTL, req>>

NextConc ==
    \/ \E i \in Threads : Start(i)
    \/ \E i \in Threads : ReadTime(i)
    \/ \E i \in Threads : Check(i)
    \/ \E i \in Threads : ReturnCached(i)
    \/ \E i \in Threads : \E ok \in BOOLEAN : Request(i, ok)
    \/ \E i \in Threads : StorePayload(i)
    \/ \E i \in Threads : StoreTime(i)
    \/ ClearPayloads
    \/ ClearTimes
    \/ Tick

SpecConc == InitConc /\ [][NextConc]_vars

\* ---------------------------------------------------------------- claims
\* a step in which a handler answered (Tick leaves all three alone)
Handled == <<cache, cache_time, last>>' # <<cache, cache_time, last>>

Stored(path) == path \in DOMAIN cache /\ path \in DOMAIN cache_time

\* C1: a fetch of a stored path at age < TTL returns the stored payload with
\* no upstream call and no change to the entry; at age >= TTL it issues one
\* upstream call, answers from it, and on success the entry holds the new
\* payload and the time of the store.
C1_Step(p) ==
    (Handled /\ last'.op = "get" /\ last'.arg = p /\ Stored(p)) =>
        IF now - cache_time[p] < CACHE_TTL
        THEN /\ last'.res = [exc |-> "none", status_code |-> 200, detail |-> cache[p]]
             /\ last'.up = <<>>
             /\ cache' = cache /\ cache_time' = cache_time
        ELSE /\ Len(last'.up) = 1
             /\ last'.up[1].kind = "ok" =>
                    /\ last'.res = [exc |-> "none", status_code |-> 200,
                                    detail |-> last'.up[1].data]
                    /\ Stored(p)'
                    /\ cache'[p] = last'.up[1].data
                    /\ cache_time'[p] = now' /\ now' >= now
             /\ last'.up[1].kind # "ok" => last'.res.exc # "none"
C1_TtlContract == [][\A p \in ServicePaths : C1_Step(p)]_vars

\* a fetch answered from the cache one second or more after the store
C1_Witness ==
    /\ last.op = "get" /\ last.hit /\ last.up = <<>>
    /\ Stored(last.arg)
    /\ now - cache_time[last.arg] >= 1
    /\ last.res.detail = cache[last.arg]

\* C2: cache-clear empties both dicts exactly when a secret is configured
\* and the supplied key equals it; otherwise it fails with 403 and leaves
\* every entry and timestamp as it was.
C2_Step ==
    (Handled /\ last'.op = "clear") =>
        IF API_KEY # "" /\ last'.arg = API_KEY
        THEN /\ last'.res.exc = "none"
             /\ DOMAIN cache' = {} /\ DOMAIN cache_time' = {}
        ELSE /\ last'.res.exc = "HTTPException" /\ last'.res.status_code = 403
             /\ cache' = cache /\ cache_time' = cache_time
C2_ClearGated == [][C2_Step]_vars

\* no secret configured, the empty key supplied, a stored entry kept
C2_Witness ==
    /\ last.op = "clear" /\ last.arg = "" /\ API_KEY = ""
    /\ last.res.status_code = 403
    /\ Stored(CollectionPath)

\* a path one of whose "/"-separated segments is ".."
HasParentSegment(f) ==
    \E i \in 1..Len(f) :
        /\ i + 1 <= Len(f)
        /\ f[i] = "." /\ f[i + 1] = "."
        /\ (i = 1 \/ f[i - 1] = "/")
        /\ (i + 1 = Len(f) \/ f[i + 2] = "/")

\* C3: a detail lookup with an empty or over-long id, and a media request
\* whose path has a ".." segment or a leading "/", is answered 400 with no
\* upstream request and no change to the cache.
C3_Step ==
    (/\ Handled
     /\ \/ last'.op = "show" /\ (Len(last'.arg) = 0 \/ Len(last'.arg) > 50)
        \/ last'.op = "media" /\ (HasParentSegment(last'.arg)
                                    \/ (Len(last'.arg) > 0 /\ last'.arg[1] = "/")))
    => /\ last'.res.exc = "HTTPException" /\ last'.res.status_code = 400
       /\ last'.up = <<>>
       /\ cache' = cache /\ cache_time' = cache_time
C3_ValidationFirst == [][C3_Step]_vars

\* m/.. rejected while the cache holds an entry
C3_Witness ==
    /\ last.op = "media" /\ last.arg = <<"m", "/", ".", ".">>
    /\ last.res.status_code = 400 /\ last.up = <<>>
    /\ Stored(CollectionPath)

\* ---- the listing query
\* the collection the backend served to the first _get of the last listing
Served == last.up[1].data

Answered == last.op = "index" /\ last.res.exc = "none"

\* the least k with k * d >= n
CeilDiv(n, d) == CHOOSE k \in 0..n : k * d >= n /\ (k = 0 \/ (k - 1) * d < n)

\* the artworks the same listing returns when page k, per_page pp is asked
PageOf(rq, k, pp) ==
    Index(EmptyMap, EmptyMap, 0, CACHE_TTL, [rq EXCEPT !.page = k, !.per_page = pp])
        .res.detail.artworks

\* the first k of a sequence of pages, put end to end
RECURSIVE PagesUpTo(_, _)
PagesUpTo(pages, k) ==
    IF k = 0 THEN <<>> ELSE PagesUpTo(pages, k - 1) \o pages[k]

\* C6: per_page outside [1,100] becomes 24 and page below 1 becomes 1;
\* total_pages = max(1, ceil(total_items / per_page)); the returned page is
\* the requested one clamped into [1, total_pages]; the pages 1..total_pages
\* put end to end are the whole filtered sequence, in order, so their sizes
\* sum to total_items.
C6_Pagination ==
    Answered =>
        LET rq == last.arg
            pg == last.res.detail.pagination
            pp == IF rq.per_page >= 1 /\ rq.per_page <= 100 THEN rq.per_page ELSE 24
            want == IF rq.page < 1 THEN 1 ELSE rq.page
            whole == PageOf(rq, 1, 100)
            pages == [k \in 1..pg.total_pages |-> PageOf(rq, k, pp)]
        IN /\ pg.per_page = pp
           /\ pg.total_items = Len(whole)
           /\ pg.total_pages = (IF pg.total_items = 0 THEN 1 ELSE CeilDiv(pg.total_items, pp))
           /\ pg.page \in 1..pg.total_pages
           /\ pg.page = (IF want > pg.total_pages THEN pg.total_pages ELSE want)
           /\ last.res.detail.artworks = pages[pg.page]
           /\ PagesUpTo(pages, pg.total_pages) = whole
           /\ \A k \in 1..pg.total_pages :
                    pages[k]
                        = SubSeq(whole, (k - 1) * pp + 1,
                                 IF k * pp < Len(whole) THEN k * pp ELSE Len(whole))

\* page 3 of a three-item listing asked with per_page 2: two pages, the
\* request clamped to the second, which holds the one remaining item
C6_Witness ==
    /\ Answered
    /\ last.arg.page = 3 /\ last.arg.per_page = 2
    /\ last.res.detail.pagination.total_items = 3
    /\ last.res.detail.pagination.total_pages = 2
    /\ last.res.detail.pagination.page = 2
    /\ Len(last.res.detail.artworks) = 1

\* the last listing asked for nothing but the named filter, and got all of
\* its result on one page
OnlyFilter(f) ==
    /\ last.op = "index" /\ Len(last.up) >= 1 /\ last.up[1].kind = "ok"
    /\ last.arg[f].t # "null"
    /\ \A g \in {"q", "year_from", "year_to", "medium"} \ {f} : last.arg[g].t = "null"
    /\ last.arg.per_page = 100

\* the year field is there and int() accepts it
YearOf(a) == ParseInt(a.year).v
HasIntYear(a) == "year" \in DOMAIN a /\ ParseInt(a.year).ok

\* C7: with year_from (resp. year_to) the result is exactly the artworks
\* whose year parses as an integer y with y >= year_from (resp. y <=
\* year_to), in order; a year that parses to 0 is kept when the bound admits 0.
C7_YearFilter ==
    LET InFrom(a) == HasIntYear(a) /\ YearOf(a) >= last.arg.year_from.v
        InTo(a) == HasIntYear(a) /\ YearOf(a) <= last.arg.year_to.v
    IN /\ (OnlyFilter("year_from") /\ last.res.exc = "none") =>
            last.res.detail.artworks = SelectSeq(Served, InFrom)
       /\ (OnlyFilter("year_to") /\ last.res.exc = "none") =>
            last.res.detail.artworks = SelectSeq(Served, InTo)

\* C8: with a medium filter the result is exactly the artworks whose medium,
\* trimmed and lower-cased, equals the trimmed and lower-cased filter value,
\* an artwork without a medium being left out without the query failing.
C8_MediumFilter ==
    LET want == Strip(Lower(last.arg.medium.v))
        Same(a) == /\ "medium" \in DOMAIN a
                   /\ a.medium.t = "str"
                   /\ Strip(Lower(a.medium.v)) = want
    IN (OnlyFilter("medium") /\ last.arg.medium.v # <<>>) =>
            /\ last.res.exc \in {"none", "HTTPException"}
            /\ (last.res.exc = "none" => last.res.detail.artworks = SelectSeq(Served, Same))

\* C9: the medium list of a listing is the sorted set of the distinct
\* non-empty trimmed medium values of the collection its filters were
\* applied to.
C9_MediumList ==
    Answered =>
        LET ms == last.res.detail.mediums
            have == {Strip(Served[i].medium.v) :
                        i \in {j \in 1..Len(Served) : "medium" \in DOMAIN Served[j]}}
        IN /\ {ms[i] : i \in 1..Len(ms)} = have \ {<<>>}
           /\ \A i \in 1..Len(ms) : \A j \in 1..Len(ms) : i < j => StrLess(ms[i], ms[j])

\* C10: whenever a fetch is answered from the cache, the payload returned
\* is the response of one upstream request, and the timestamp that made it
\* count as fresh was written by the fetch that stored that payload.
C10_FullReplacement ==
    (last.op = "conc" /\ last.served # <<>>) =>
        /\ \E f \in 1..MaxFetches : last.served[1].payload = <<"response", f>>
        /\ last.served[1].payload[2] = last.served[1].pby
        /\ last.served[1].tby = last.served[1].pby

\* what a transport failure of kind e makes _get raise
TransportFailure(e) ==
    [exc |-> "HTTPException", status_code |-> 503, detail |-> TransportDetail(e)]

\* the part of C4 that holds: status S is raised with exactly S and the body,
\* a transport failure is raised as 503, and the detail lookup turns an
\* upstream 404, and nothing else, into the not-found page
C4_Carried ==
    /\ (last.op = "get" /\ Len(last.up) = 1 /\ last.up[1].kind = "status") =>
            last.res = [exc |-> "HTTPException", status_code |-> last.up[1].code,
                        detail |-> last.up[1].text]
    /\ (last.op = "get" /\ Len(last.up) = 1 /\ last.up[1].kind = "transport") =>
            last.res = TransportFailure(last.up[1].err)
    /\ (last.op = "show" /\ Len(last.up) = 1 /\ last.up[1].kind = "status") =>
            IF last.up[1].code = 404
            THEN last.res.exc = "none" /\ last.res.status_code = 404
            ELSE last.res = [exc |-> "HTTPException", status_code |-> last.up[1].code,
                             detail |-> last.up[1].text]
    /\ (last.op = "show" /\ Len(last.up) = 1 /\ last.up[1].kind = "transport") =>
            last.res = TransportFailure(last.up[1].err)
    /\ (last.op = "show" /\ last.res.status_code = 404) =>
            Len(last.up) = 1 /\ last.up[1].kind = "status" /\ last.up[1].code = 404

C5_LiveProbe ==
    last.op = "health" =>
        /\ Len(last.up) = 1
        /\ last.res.detail = <<"healthy">> => last.up[1].kind = "ok"

====
